---- MODULE Spec2Model ----
(***************************************************************************)
(* Car rental booking: the Redux booking slice (bookingSlice.ts), the      *)
(* React handlers that dispatch to it (VehicleSelection, DateSelection,    *)
(* AddonsSelection, App, BookingConfirmation) and the add-on eligibility   *)
(* lookup of the backend (AddonService).                                   *)
(*                                                                         *)
(* A date string is modelled as the tuple of its numeric fields:           *)
(* "" is <<>>, "2025-12" is <<2025, 12>>, "2025-12-31" is <<2025, 12, 31>>.*)
(* Fields are zero padded and of fixed width in the source, so JavaScript  *)
(* string comparison is the lexicographic order on these tuples.           *)
(***************************************************************************)
EXTENDS Integers, Sequences, FiniteSets, TLC

(***************************************************************************)
(* Bounds of the model.                                                    *)
(***************************************************************************)
NumDates == 3        \* calendar dates the user can enter, from FirstDate on
MaxTicks == 1        \* midnights that pass during the session
MaxInFlight == 2     \* add-on fetches outstanding at the same time
MaxToggleId == 1     \* add-on ids the user toggles are 1..MaxToggleId
MaxVehicleId == 2    \* vehicle ids the user clicks are 1..MaxVehicleId
MaxDays == 3         \* longest rental among the store states of StoreSpec
MaxAddonId == 5      \* add-on ids dispatched in StoreSpec are 1..MaxAddonId
MaxSelected == 2     \* most add-ons selected together in StoreSpec
MaxRequestId == 6    \* low words of requested vehicle ids are 0..MaxRequestId
MaxHigh == 1         \* high words of requested vehicle ids are 0..MaxHigh

(***************************************************************************)
(* Dates.                                                                  *)
(***************************************************************************)
EmptyString == <<>>

FirstDate == <<2025, 12, 30>>

\* "2025-12": an incomplete date, as typed before the day is entered
IncompleteDate == <<2025, 12>>

\* "2025-13-45": matches the YYYY-MM-DD pattern but is no calendar date
InvalidDate == <<2025, 13, 45>>

DaysInMonth(m) ==
    IF m = 2 THEN 28
    ELSE IF m \in {4, 6, 9, 11} THEN 30
    ELSE 31

RECURSIVE SumDaysInMonths(_)
SumDaysInMonths(m) ==
    IF m <= 1 THEN 0 ELSE SumDaysInMonths(m - 1) + DaysInMonth(m - 1)

\* tabulated once; month 13 serves strings such as "2025-13-45"
DaysBeforeMonthTable == [m \in 1..13 |-> SumDaysInMonths(m)]

DaysBeforeMonth(m) == DaysBeforeMonthTable[m]

\* the date of the following day (2025 and 2026 are not leap years)
NextDate(s) ==
    IF s[3] < DaysInMonth(s[2]) THEN <<s[1], s[2], s[3] + 1>>
    ELSE IF s[2] < 12 THEN <<s[1], s[2] + 1, 1>>
    ELSE <<s[1] + 1, 1, 1>>

RECURSIVE DateOf(_)
DateOf(n) == IF n = 1 THEN FirstDate ELSE NextDate(DateOf(n - 1))

WellFormedDates == { DateOf(n) : n \in 1..NumDates }

\* every value an input's change event delivers in the model
DateInputs == {EmptyString, IncompleteDate} \cup WellFormedDates

\* JavaScript a <= b on two date strings: lexicographic, a proper prefix
\* sorting before its extensions
RECURSIVE StringLeqFrom(_, _, _)
StringLeqFrom(a, b, i) ==
    IF i > Len(a) THEN TRUE
    ELSE IF i > Len(b) THEN FALSE
    ELSE IF a[i] < b[i] THEN TRUE
    ELSE IF a[i] > b[i] THEN FALSE
    ELSE StringLeqFrom(a, b, i + 1)

StringLeq(a, b) == StringLeqFrom(a, b, 1)

\* DateSelection.isCompleteDate: the YYYY-MM-DD pattern and a valid date
isCompleteDate(dateString) ==
    /\ dateString # EmptyString
    /\ Len(dateString) = 3
    /\ dateString[2] \in 1..12
    /\ dateString[3] \in 1..DaysInMonth(dateString[2])

\* new Date(s + 'T00:00:00') with setHours(0, 0, 0, 0): local midnight of
\* the day, as a day number (days are counted from 2025-01-01 = 1)
LocalMidnight(s) == (s[1] - 2025) * 365 + DaysBeforeMonth(s[2]) + s[3]

\* the day on which the session starts: the day after FirstDate
Today0 == LocalMidnight(FirstDate) + 1

(***************************************************************************)
(* Catalog (backend).                                                      *)
(***************************************************************************)
\* VehicleService.getAllVehicles: the ids, in order
AllVehicles == <<1, 2, 3, 4>>

VehicleCostPerDay(v) ==
    CASE v = 1 -> 2500 [] v = 2 -> 3500 [] v = 3 -> 5000 [] v = 4 -> 4000

AddonCostPerDay(a) ==
    CASE a = 1 -> 200 [] a = 2 -> 150 [] a = 3 -> 300 [] a = 4 -> 1000
      [] a = 5 -> 500 [] a = 6 -> 250 [] a = 7 -> 800 [] a = 8 -> 1200
      [] a = 9 -> 1500 [] a = 10 -> 400

BaseAddons == <<1, 2, 5, 6>>

\* no vehicle id (null)
NoVehicle == 0

getAddonsByVehicleId_fallThrough(vehicleId) ==
    IF vehicleId = NoVehicle THEN BaseAddons
    ELSE IF vehicleId = 1 THEN BaseAddons
    ELSE IF vehicleId \in {2, 4}
        THEN BaseAddons \o <<3>> \o <<3, 4, 7, 8, 9, 10>>
    ELSE IF vehicleId = 3 THEN BaseAddons \o <<3, 4, 7, 8, 9, 10>>
    ELSE BaseAddons

\* AddonService.getAddonsByVehicleId: the add-on ids, in order
getAddonsByVehicleId(vehicleId) ==
    IF vehicleId = NoVehicle THEN BaseAddons
    ELSE IF vehicleId = 1 THEN BaseAddons
    ELSE IF vehicleId \in {2, 4} THEN BaseAddons \o <<3>>
    ELSE IF vehicleId = 3 THEN BaseAddons \o <<3, 4, 7, 8, 9, 10>>
    ELSE BaseAddons

(***************************************************************************)
(* Sequence helpers (Array.prototype).                                     *)
(***************************************************************************)
Range(s) == { s[i] : i \in 1..Len(s) }

\* indexOf: the first index holding x, 0 when there is none (-1 in JS)
indexOf(s, x) ==
    IF x \in Range(s) THEN CHOOSE i \in 1..Len(s) :
                               s[i] = x /\ \A j \in 1..(i - 1) : s[j] # x
    ELSE 0

\* splice(index, 1)
removeAt(s, index) ==
    [i \in 1..(Len(s) - 1) |-> IF i < index THEN s[i] ELSE s[i + 1]]

(***************************************************************************)
(* The store.                                                              *)
(***************************************************************************)
NoError == "null"

initialState ==
    [selectedVehicle |-> NoVehicle,
     pickupDate |-> EmptyString,
     dropoffDate |-> EmptyString,
     selectedAddons |-> <<>>,
     vehicles |-> <<>>,
     addons |-> <<>>,
     loading |-> FALSE,
     error |-> NoError,
     showConfirmation |-> FALSE]

(***************************************************************************)
(* Reducers: state and payload to the next state.                          *)
(***************************************************************************)
selectVehicle_alwaysClearDates(state, id) ==
    [state EXCEPT !.pickupDate = EmptyString,
                  !.dropoffDate = EmptyString,
                  !.selectedVehicle = id,
                  !.selectedAddons = <<>>,
                  !.addons = <<>>]

selectVehicle_keepAddons(state, id) ==
    LET changing == state.selectedVehicle # NoVehicle
                    /\ state.selectedVehicle # id
    IN [state EXCEPT !.pickupDate = IF changing THEN EmptyString ELSE @,
                     !.dropoffDate = IF changing THEN EmptyString ELSE @,
                     !.selectedVehicle = id,
                     !.selectedAddons = <<>>]

selectVehicle(state, id) ==
    LET changing == state.selectedVehicle # NoVehicle
                    /\ state.selectedVehicle # id
    IN [state EXCEPT !.pickupDate = IF changing THEN EmptyString ELSE @,
                     !.dropoffDate = IF changing THEN EmptyString ELSE @,
                     !.selectedVehicle = id,
                     !.selectedAddons = <<>>,
                     !.addons = <<>>]

setPickupDate_reversed(state, payload) ==
    [state EXCEPT !.pickupDate = payload,
                  !.dropoffDate =
                      IF @ # EmptyString /\ StringLeq(payload, @)
                      THEN EmptyString ELSE @]

setPickupDate_strict(state, payload) ==
    [state EXCEPT !.pickupDate = payload,
                  !.dropoffDate =
                      IF @ # EmptyString /\ StringLeq(@, payload)
                         /\ @ # payload
                      THEN EmptyString ELSE @]

setPickupDate(state, payload) ==
    [state EXCEPT !.pickupDate = payload,
                  !.dropoffDate =
                      IF @ # EmptyString /\ StringLeq(@, payload)
                      THEN EmptyString ELSE @]

setDropoffDate(state, payload) ==
    [state EXCEPT !.dropoffDate = payload]

toggleAddon_alwaysPush(state, addonId) ==
    [state EXCEPT !.selectedAddons = Append(@, addonId)]

toggleAddon_addOnly(state, addonId) ==
    IF indexOf(state.selectedAddons, addonId) = 0
    THEN [state EXCEPT !.selectedAddons = Append(@, addonId)]
    ELSE state

toggleAddon(state, addonId) ==
    LET index == indexOf(state.selectedAddons, addonId)
    IN IF index = 0
       THEN [state EXCEPT !.selectedAddons = Append(@, addonId)]
       ELSE [state EXCEPT !.selectedAddons = removeAt(@, index)]

showConfirmation(state) == [state EXCEPT !.showConfirmation = TRUE]

hideConfirmation(state) == [state EXCEPT !.showConfirmation = FALSE]

resetBooking_clearsCatalog(state) ==
    [state EXCEPT !.selectedVehicle = NoVehicle,
                  !.pickupDate = EmptyString,
                  !.dropoffDate = EmptyString,
                  !.selectedAddons = <<>>,
                  !.vehicles = <<>>,
                  !.showConfirmation = FALSE]

resetBooking(state) ==
    [state EXCEPT !.selectedVehicle = NoVehicle,
                  !.pickupDate = EmptyString,
                  !.dropoffDate = EmptyString,
                  !.selectedAddons = <<>>,
                  !.showConfirmation = FALSE]

fetchVehiclesPending(state) ==
    [state EXCEPT !.loading = TRUE, !.error = NoError]

fetchVehiclesFulfilled(state, payload) ==
    [state EXCEPT !.loading = FALSE, !.vehicles = payload]

fetchVehiclesRejected_keepsLoading(state, payload) ==
    [state EXCEPT !.error = payload]

fetchVehiclesRejected(state, payload) ==
    [state EXCEPT !.loading = FALSE, !.error = payload]

fetchAddonsPending(state) ==
    [state EXCEPT !.error = NoError]

fetchAddonsFulfilled_merge(state, payload) ==
    [state EXCEPT !.addons =
        @ \o SelectSeq(payload, LAMBDA addon : addon \notin Range(@))]

fetchAddonsFulfilled(state, payload) ==
    [state EXCEPT !.addons = payload]

fetchAddonsRejected(state) ==
    [state EXCEPT !.addons = <<>>]

(***************************************************************************)
(* Selectors.                                                              *)
(***************************************************************************)
NaN == -1

\* new Date(s).getTime() for a date-only string, in days: UTC midnight of
\* the date, the first of the month for "YYYY-MM", NaN for an invalid date
UtcTime(s) ==
    IF Len(s) = 2 /\ s[2] \in 1..12
        THEN (s[1] - 2025) * 365 + DaysBeforeMonth(s[2]) + 1
    ELSE IF isCompleteDate(s)
        THEN (s[1] - 2025) * 365 + DaysBeforeMonth(s[2]) + s[3]
    ELSE NaN

selectRentalDays(state) ==
    IF state.pickupDate = EmptyString \/ state.dropoffDate = EmptyString
        THEN 0
    ELSE LET pickup == UtcTime(state.pickupDate)
             dropoff == UtcTime(state.dropoffDate)
         IN IF pickup = NaN \/ dropoff = NaN THEN 0
            ELSE IF dropoff >= pickup THEN dropoff - pickup
            ELSE pickup - dropoff

\* null
NoSummary == <<>>

RECURSIVE sumAddonCosts(_, _)
\* reduce((sum, addon) => sum + addon.costPerDay * days, 0)
sumAddonCosts(addonObjects, days) ==
    IF addonObjects = <<>> THEN 0
    ELSE AddonCostPerDay(Head(addonObjects)) * days
         + sumAddonCosts(Tail(addonObjects), days)

selectBookingSummary_taxOnBase(state) ==
    LET days == selectRentalDays(state)
    IN IF \/ state.selectedVehicle = NoVehicle
          \/ state.pickupDate = EmptyString
          \/ state.dropoffDate = EmptyString
          \/ days = 0
       THEN NoSummary
       ELSE LET baseCost == VehicleCostPerDay(state.selectedVehicle) * days
                selectedAddonObjects ==
                    SelectSeq(state.addons,
                              LAMBDA addon :
                                  addon \in Range(state.selectedAddons))
                addonsCost == sumAddonCosts(selectedAddonObjects, days)
                subtotal == baseCost + addonsCost
                gst == (baseCost * 18) \div 100
                total == subtotal + gst
            IN [vehicle |-> state.selectedVehicle,
                days |-> days,
                baseCost |-> baseCost,
                addonsCost |-> addonsCost,
                subtotal |-> subtotal,
                gst |-> gst,
                total |-> total,
                selectedAddons |-> selectedAddonObjects]

selectBookingSummary_catalogLookup(state) ==
    LET days == selectRentalDays(state)
    IN IF \/ state.selectedVehicle = NoVehicle
          \/ state.pickupDate = EmptyString
          \/ state.dropoffDate = EmptyString
          \/ days = 0
       THEN NoSummary
       ELSE LET baseCost == VehicleCostPerDay(state.selectedVehicle) * days
                selectedAddonObjects == state.selectedAddons
                addonsCost == sumAddonCosts(selectedAddonObjects, days)
                subtotal == baseCost + addonsCost
                gst == (subtotal * 18) \div 100
                total == subtotal + gst
            IN [vehicle |-> state.selectedVehicle,
                days |-> days,
                baseCost |-> baseCost,
                addonsCost |-> addonsCost,
                subtotal |-> subtotal,
                gst |-> gst,
                total |-> total,
                selectedAddons |-> selectedAddonObjects]

selectBookingSummary_addonsDiscount(state) ==
    LET days == selectRentalDays(state)
    IN IF \/ state.selectedVehicle = NoVehicle
          \/ state.pickupDate = EmptyString
          \/ state.dropoffDate = EmptyString
          \/ days = 0
       THEN NoSummary
       ELSE LET baseCost == VehicleCostPerDay(state.selectedVehicle) * days
                selectedAddonObjects ==
                    SelectSeq(state.addons,
                              LAMBDA addon :
                                  addon \in Range(state.selectedAddons))
                addonsCost == sumAddonCosts(selectedAddonObjects, days)
                subtotal == baseCost - addonsCost
                gst == (subtotal * 18) \div 100
                total == subtotal + gst
            IN [vehicle |-> state.selectedVehicle,
                days |-> days,
                baseCost |-> baseCost,
                addonsCost |-> addonsCost,
                subtotal |-> subtotal,
                gst |-> gst,
                total |-> total,
                selectedAddons |-> selectedAddonObjects]

selectBookingSummary(state) ==
    LET days == selectRentalDays(state)
    IN IF \/ state.selectedVehicle = NoVehicle
          \/ state.pickupDate = EmptyString
          \/ state.dropoffDate = EmptyString
          \/ days = 0
       THEN NoSummary
       ELSE LET baseCost == VehicleCostPerDay(state.selectedVehicle) * days
                selectedAddonObjects ==
                    SelectSeq(state.addons,
                              LAMBDA addon :
                                  addon \in Range(state.selectedAddons))
                addonsCost == sumAddonCosts(selectedAddonObjects, days)
                subtotal == baseCost + addonsCost
                gst == (subtotal * 18) \div 100
                total == subtotal + gst
            IN [vehicle |-> state.selectedVehicle,
                days |-> days,
                baseCost |-> baseCost,
                addonsCost |-> addonsCost,
                subtotal |-> subtotal,
                gst |-> gst,
                total |-> total,
                selectedAddons |-> selectedAddonObjects]

selectIsBookingValid_needsAddon(state) ==
    /\ state.selectedVehicle # NoVehicle
    /\ state.pickupDate # EmptyString
    /\ state.dropoffDate # EmptyString
    /\ state.selectedAddons # <<>>
    /\ selectRentalDays(state) > 0

selectIsBookingValid_noDays(state) ==
    /\ state.selectedVehicle # NoVehicle
    /\ state.pickupDate # EmptyString
    /\ state.dropoffDate # EmptyString

selectIsBookingValid(state) ==
    /\ state.selectedVehicle # NoVehicle
    /\ state.pickupDate # EmptyString
    /\ state.dropoffDate # EmptyString
    /\ selectRentalDays(state) > 0

(***************************************************************************)
(* State.                                                                  *)
(***************************************************************************)
VARIABLES
    booking,         \* the Redux store's booking slice
    addonFetches,    \* vehicle id -> number of fetchAddons(id) in flight
    vehicleFetches,  \* number of fetchVehicles in flight
    today,           \* local midnight of the current day (new Date())
    mounted,         \* App's mount effect has run
    last             \* history: the branch taken by handleSelect when it
                     \* was the latest step, <<"other", "">> after any
                     \* other step

vars == <<booking, addonFetches, vehicleFetches, today, mounted, last>>

VehicleIds == Range(AllVehicles)

InFlight == addonFetches[1] + addonFetches[2] + addonFetches[3]
            + addonFetches[4]

Init ==
    /\ booking = initialState
    /\ addonFetches = [v \in VehicleIds |-> 0]
    /\ vehicleFetches = 0
    /\ today = Today0
    /\ mounted = FALSE
    /\ last = <<"other", "">>

\* App renders the selection components only when !loading && !error
FormShown ==
    /\ mounted
    /\ ~booking.loading
    /\ booking.error = NoError

(***************************************************************************)
(* Vehicle catalog: App's effects and the fetchVehicles thunk.             *)
(***************************************************************************)
AppMount ==
    /\ ~mounted
    /\ mounted' = TRUE
    /\ booking' = fetchVehiclesPending(booking)
    /\ vehicleFetches' = vehicleFetches + 1
    /\ last' = <<"other", "">>
    /\ UNCHANGED <<addonFetches, today>>

handleOnline ==
    /\ mounted
    /\ IF ~booking.loading /\ booking.error = NoError
       THEN /\ booking' = fetchVehiclesPending(booking)
            /\ vehicleFetches' = vehicleFetches + 1
       ELSE UNCHANGED <<booking, vehicleFetches>>
    /\ last' = <<"other", "">>
    /\ UNCHANGED <<addonFetches, today, mounted>>

handleRetry ==
    /\ mounted
    /\ booking.error # NoError
    /\ booking' = fetchVehiclesPending(booking)
    /\ vehicleFetches' = vehicleFetches + 1
    /\ last' = <<"other", "">>
    /\ UNCHANGED <<addonFetches, today, mounted>>

FetchVehiclesFulfilled ==
    /\ vehicleFetches > 0
    /\ vehicleFetches' = vehicleFetches - 1
    /\ booking' = fetchVehiclesFulfilled(booking, AllVehicles)
    /\ last' = <<"other", "">>
    /\ UNCHANGED <<addonFetches, today, mounted>>

FetchVehiclesRejected ==
    /\ vehicleFetches > 0
    /\ vehicleFetches' = vehicleFetches - 1
    /\ booking' = fetchVehiclesRejected(booking, "Network error")
    /\ last' = <<"other", "">>
    /\ UNCHANGED <<addonFetches, today, mounted>>

(***************************************************************************)
(* VehicleSelection.handleSelect and the fetchAddons thunk.                *)
(***************************************************************************)
handleSelect(vehicle) ==
    /\ FormShown
    /\ vehicle \in Range(booking.vehicles)
    /\ vehicle <= MaxVehicleId
    /\ InFlight < MaxInFlight
    /\ booking' = fetchAddonsPending(selectVehicle(booking, vehicle))
    /\ addonFetches' = [addonFetches EXCEPT ![vehicle] = @ + 1]
    /\ last' = <<"handleSelect",
                 IF booking.selectedVehicle = NoVehicle THEN "first"
                 ELSE IF booking.selectedVehicle = vehicle THEN "same"
                 ELSE "changed">>
    /\ UNCHANGED <<vehicleFetches, today, mounted>>

FetchAddonsFulfilled(vehicleId) ==
    /\ addonFetches[vehicleId] > 0
    /\ addonFetches' = [addonFetches EXCEPT ![vehicleId] = @ - 1]
    /\ booking' = fetchAddonsFulfilled(booking,
                                       getAddonsByVehicleId(vehicleId))
    /\ last' = <<"other", "">>
    /\ UNCHANGED <<vehicleFetches, today, mounted>>

FetchAddonsRejected(vehicleId) ==
    /\ addonFetches[vehicleId] > 0
    /\ addonFetches' = [addonFetches EXCEPT ![vehicleId] = @ - 1]
    /\ booking' = fetchAddonsRejected(booking)
    /\ last' = <<"other", "">>
    /\ UNCHANGED <<vehicleFetches, today, mounted>>

(***************************************************************************)
(* DateSelection.                                                          *)
(***************************************************************************)
\* isValidDate: not in the past; empty and incomplete strings pass
isValidDate(dateString) ==
    IF dateString = EmptyString THEN TRUE
    ELSE IF ~isCompleteDate(dateString) THEN TRUE
    ELSE LocalMidnight(dateString) >= today

\* isValidDropoffDate: strictly after the pickup date, when both are complete
isValidDropoffDate(dropoffDateString, pickupDateString) ==
    IF dropoffDateString = EmptyString \/ pickupDateString = EmptyString
        THEN TRUE
    ELSE IF ~isCompleteDate(dropoffDateString)
            \/ ~isCompleteDate(pickupDateString) THEN TRUE
    ELSE LocalMidnight(dropoffDateString) > LocalMidnight(pickupDateString)

isPickupDisabled_never == FALSE

isPickupDisabled == booking.selectedVehicle = NoVehicle

isDropoffDisabled ==
    booking.selectedVehicle = NoVehicle \/ booking.pickupDate = EmptyString

pickupRejected_never(value) == FALSE

pickupRejected_today(value) ==
    /\ value # EmptyString
    /\ isCompleteDate(value)
    /\ LocalMidnight(value) <= today

\* handlePickupChange returns before dispatching (lines 97-108)
pickupRejected(value) ==
    /\ value # EmptyString
    /\ isCompleteDate(value)
    /\ LocalMidnight(value) < today

\* the store after handlePickupChange's dispatches (lines 111-127);
\* dropoffDate is the value the component rendered with
pickupDispatches(state, value) ==
    LET dropoffDate == state.dropoffDate
        s1 == setPickupDate(state, value)
    IN IF value # EmptyString /\ isCompleteDate(value)
          /\ dropoffDate # EmptyString /\ isCompleteDate(dropoffDate)
          /\ ~isValidDropoffDate(dropoffDate, value)
       THEN setDropoffDate(s1, EmptyString)
       ELSE s1

handlePickupChange(value) ==
    /\ FormShown
    /\ ~isPickupDisabled
    /\ IF pickupRejected(value)
       THEN UNCHANGED booking
       ELSE booking' = pickupDispatches(booking, value)
    /\ last' = <<"other", "">>
    /\ UNCHANGED <<addonFetches, vehicleFetches, today, mounted>>

\* handlePickupBlur: the input is controlled, its value is pickupDate
handlePickupBlur ==
    /\ FormShown
    /\ ~isPickupDisabled
    /\ LET value == booking.pickupDate
       IN IF value # EmptyString /\ isCompleteDate(value)
          THEN IF ~isValidDate(value)
               THEN booking' = setPickupDate(booking, EmptyString)
               ELSE UNCHANGED booking
          ELSE IF value # EmptyString
               THEN booking' = setPickupDate(booking, EmptyString)
               ELSE UNCHANGED booking
    /\ last' = <<"other", "">>
    /\ UNCHANGED <<addonFetches, vehicleFetches, today, mounted>>

dropoffRejected_allowEqual(state, value) ==
    /\ value # EmptyString
    /\ isCompleteDate(value)
    /\ \/ LocalMidnight(value) < today
       \/ /\ state.pickupDate # EmptyString
          /\ isCompleteDate(state.pickupDate)
          /\ LocalMidnight(value) < LocalMidnight(state.pickupDate)

dropoffRejected_ignorePast(state, value) ==
    /\ value # EmptyString
    /\ isCompleteDate(value)
    /\ state.pickupDate # EmptyString
    /\ isCompleteDate(state.pickupDate)
    /\ LocalMidnight(value) <= LocalMidnight(state.pickupDate)

\* handleDropoffChange returns before dispatching (lines 156-177)
dropoffRejected(state, value) ==
    /\ value # EmptyString
    /\ isCompleteDate(value)
    /\ \/ LocalMidnight(value) < today
       \/ /\ state.pickupDate # EmptyString
          /\ isCompleteDate(state.pickupDate)
          /\ LocalMidnight(value) <= LocalMidnight(state.pickupDate)

handleDropoffChange(value) ==
    /\ FormShown
    /\ ~isDropoffDisabled
    /\ IF dropoffRejected(booking, value)
       THEN UNCHANGED booking
       ELSE booking' = setDropoffDate(booking, value)
    /\ last' = <<"other", "">>
    /\ UNCHANGED <<addonFetches, vehicleFetches, today, mounted>>

\* handleDropoffBlur: the input is controlled, its value is dropoffDate
handleDropoffBlur ==
    /\ FormShown
    /\ ~isDropoffDisabled
    /\ LET value == booking.dropoffDate
           pickupDate == booking.pickupDate
       IN IF value = EmptyString
          THEN UNCHANGED booking
          ELSE IF isCompleteDate(value)
          THEN IF ~isValidDate(value)
                  \/ (pickupDate # EmptyString
                      /\ ~isValidDropoffDate(value, pickupDate))
               THEN booking' = setDropoffDate(booking, EmptyString)
               ELSE UNCHANGED booking
          ELSE booking' = setDropoffDate(booking, EmptyString)
    /\ last' = <<"other", "">>
    /\ UNCHANGED <<addonFetches, vehicleFetches, today, mounted>>

(***************************************************************************)
(* AddonsSelection, App.handleBookNow, BookingConfirmation.handleClose.    *)
(***************************************************************************)
\* a checkbox is rendered for every add-on of state.addons
handleToggle(addonId) ==
    /\ FormShown
    /\ booking.selectedVehicle # NoVehicle
    /\ addonId \in Range(booking.addons)
    /\ addonId <= MaxToggleId
    /\ booking' = toggleAddon(booking, addonId)
    /\ last' = <<"other", "">>
    /\ UNCHANGED <<addonFetches, vehicleFetches, today, mounted>>

handleBookNow_ungated ==
    /\ FormShown
    /\ booking' = showConfirmation(booking)
    /\ last' = <<"other", "">>
    /\ UNCHANGED <<addonFetches, vehicleFetches, today, mounted>>

handleBookNow ==
    /\ FormShown
    /\ IF selectIsBookingValid(booking)
       THEN booking' = showConfirmation(booking)
       ELSE UNCHANGED booking
    /\ last' = <<"other", "">>
    /\ UNCHANGED <<addonFetches, vehicleFetches, today, mounted>>

\* the confirmation is rendered when showConfirmation && summary
handleClose ==
    /\ mounted
    /\ booking.showConfirmation
    /\ selectBookingSummary(booking) # NoSummary
    /\ booking' = resetBooking(hideConfirmation(booking))
    /\ last' = <<"other", "">>
    /\ UNCHANGED <<addonFetches, vehicleFetches, today, mounted>>

(***************************************************************************)
(* The clock: midnight passes.                                             *)
(***************************************************************************)
Midnight ==
    /\ today < Today0 + MaxTicks
    /\ today' = today + 1
    /\ last' = <<"other", "">>
    /\ UNCHANGED <<booking, addonFetches, vehicleFetches, mounted>>

Next ==
    \/ AppMount
    \/ handleOnline
    \/ handleRetry
    \/ FetchVehiclesFulfilled
    \/ FetchVehiclesRejected
    \/ \E vehicle \in VehicleIds : handleSelect(vehicle)
    \/ \E vehicleId \in VehicleIds : FetchAddonsFulfilled(vehicleId)
    \/ \E vehicleId \in VehicleIds : FetchAddonsRejected(vehicleId)
    \/ \E value \in DateInputs : handlePickupChange(value)
    \/ handlePickupBlur
    \/ \E value \in DateInputs : handleDropoffChange(value)
    \/ handleDropoffBlur
    \/ \E addonId \in 1..10 : handleToggle(addonId)
    \/ handleBookNow
    \/ handleClose
    \/ Midnight

Spec == Init /\ [][Next]_vars

(***************************************************************************)
(* The development build: main.tsx renders App inside React.StrictMode,    *)
(* which runs the mount effect twice (mount, simulated unmount, mount), so *)
(* two fetchVehicles requests are dispatched one after the other before    *)
(* either can resolve.  DevSpec allows both builds.                        *)
(***************************************************************************)
AppMountStrict ==
    /\ ~mounted
    /\ mounted' = TRUE
    /\ booking' = fetchVehiclesPending(fetchVehiclesPending(booking))
    /\ vehicleFetches' = vehicleFetches + 2
    /\ last' = <<"other", "">>
    /\ UNCHANGED <<addonFetches, today>>

DevNext ==
    \/ AppMountStrict
    \/ Next

DevSpec == Init /\ [][DevNext]_vars

(***************************************************************************)
(* The store on its own: the selectors and the toggleAddon reducer are     *)
(* pure functions of the store, defined for every store state and every    *)
(* id.  StoreSpec starts from any combination of vehicle, date strings and *)
(* available add-ons, dispatches toggleAddon with any id and reads the     *)
(* selectors through handleBookNow and handleClose.                        *)
(***************************************************************************)
StoreDates ==
    {EmptyString, IncompleteDate, InvalidDate}
        \cup { DateOf(n) : n \in 1..(MaxDays + 1) }

StoreStates ==
    UNION { { [initialState EXCEPT !.selectedVehicle = v,
                                   !.pickupDate = p,
                                   !.dropoffDate = d,
                                   !.vehicles = AllVehicles,
                                   !.addons = a] :
                  p \in StoreDates, d \in StoreDates,
                  a \in {<<>>, getAddonsByVehicleId(v)} } :
            v \in {NoVehicle} \cup VehicleIds }

StoreInit ==
    /\ booking \in StoreStates
    /\ addonFetches = [v \in VehicleIds |-> 0]
    /\ vehicleFetches = 0
    /\ today = Today0
    /\ mounted = TRUE
    /\ last = <<"other", "">>

\* store.dispatch(toggleAddon(addonId)): the reducer takes any id
dispatchToggleAddon(addonId) ==
    /\ \/ addonId \in Range(booking.selectedAddons)
       \/ Len(booking.selectedAddons) < MaxSelected
    /\ booking' = toggleAddon(booking, addonId)
    /\ last' = <<"other", "">>
    /\ UNCHANGED <<addonFetches, vehicleFetches, today, mounted>>

StoreNext ==
    \/ \E addonId \in 1..MaxAddonId : dispatchToggleAddon(addonId)
    \/ handleBookNow
    \/ handleClose

StoreSpec == StoreInit /\ [][StoreNext]_vars

(***************************************************************************)
(* The add-on endpoint: GET /api/addons?vehicleId= answered by             *)
(* AddonController.getAddons and the response stored by the client.  The   *)
(* request parameter is a Long or absent: <<>> is the absent parameter     *)
(* (null), <<hi, lo>> is the Long whose upper 32 bits are hi and whose     *)
(* lower 32 bits are lo.                                                   *)
(***************************************************************************)
NullId == <<>>

RequestIds ==
    {NullId} \cup { <<hi, lo>> : hi \in 0..MaxHigh, lo \in 0..MaxRequestId }

\* the Long of a vehicle of the catalog
LongOf(v) == <<0, v>>

\* Long.intValue(): the low 32 bits (low words here are below 2^31)
intValue(vehicleId) == vehicleId[2]

\* AddonController.getAddons: the list in the response
getAddons(vehicleId) ==
    IF vehicleId # NullId
    THEN getAddonsByVehicleId(intValue(vehicleId))
    ELSE getAddonsByVehicleId(NoVehicle)

ResolverInit ==
    /\ StoreInit
    /\ booking.addons = <<>>

\* a request for any id is answered and the client stores the list
RequestAddons(vehicleId) ==
    /\ booking' = fetchAddonsFulfilled(booking, getAddons(vehicleId))
    /\ last' = <<"other", "">>
    /\ UNCHANGED <<addonFetches, vehicleFetches, today, mounted>>

ResolverNext == \E vehicleId \in RequestIds : RequestAddons(vehicleId)

ResolverSpec == ResolverInit /\ [][ResolverNext]_vars

(***************************************************************************)
(* Properties.                                                             *)
(***************************************************************************)
\* C1: a fetchAddons result that resolves for a vehicle other than the one
\* selected at that moment is discarded: state.addons is left as it was.
C1_StaleFetchDiscarded ==
    [][\A vehicleId \in VehicleIds :
         (FetchAddonsFulfilled(vehicleId)
          /\ vehicleId # booking.selectedVehicle)
         => booking'.addons = booking.addons]_vars

\* C2: every selected add-on id is the id of an available add-on.
C2_SelectedSubsetOfAvailable ==
    Range(booking.selectedAddons) \subseteq Range(booking.addons)

\* C3: a non-empty state.addons is the eligibility result of the selected
\* vehicle.
C3_AddonsScopedToVehicle ==
    booking.addons # <<>> =>
        /\ booking.selectedVehicle # NoVehicle
        /\ booking.addons = getAddonsByVehicleId(booking.selectedVehicle)

\* C4: handleSelect(v) leaves selectedVehicle = v, selectedAddons and addons
\* empty, and one more fetchAddons(v) in flight, whatever the state before.
C4_SelectVehicleEffect ==
    [][last'[1] = "handleSelect" => \A vehicle \in VehicleIds :
         handleSelect(vehicle) =>
             /\ booking'.selectedVehicle = vehicle
             /\ booking'.selectedAddons = <<>>
             /\ booking'.addons = <<>>
             /\ addonFetches' =
                    [addonFetches EXCEPT ![vehicle] = @ + 1]]_vars

C4_Witness ==
    /\ last = <<"handleSelect", "changed">>
    /\ booking.selectedVehicle = 2
    /\ addonFetches[1] = 1
    /\ addonFetches[2] = 1

\* C5: handleSelect(v) empties both dates when another vehicle was selected
\* before, and keeps both when none or the same vehicle was selected.
C5_DatesClearedOnlyOnChange ==
    [][last'[1] = "handleSelect" => \A vehicle \in VehicleIds :
         handleSelect(vehicle) =>
             IF booking.selectedVehicle # NoVehicle
                /\ booking.selectedVehicle # vehicle
             THEN /\ booking'.pickupDate = EmptyString
                  /\ booking'.dropoffDate = EmptyString
             ELSE /\ booking'.pickupDate = booking.pickupDate
                  /\ booking'.dropoffDate = booking.dropoffDate]_vars

C5_Witness ==
    /\ last = <<"handleSelect", "same">>
    /\ isCompleteDate(booking.pickupDate)
    /\ isCompleteDate(booking.dropoffDate)

\* C6: when both dates are well-formed, dropoff is strictly later than
\* pickup.
C6_DropoffAfterPickup ==
    (isCompleteDate(booking.pickupDate)
     /\ isCompleteDate(booking.dropoffDate))
    => LocalMidnight(booking.dropoffDate)
           > LocalMidnight(booking.pickupDate)

C6_Witness ==
    /\ isCompleteDate(booking.pickupDate)
    /\ isCompleteDate(booking.dropoffDate)
    /\ LocalMidnight(booking.dropoffDate)
           = LocalMidnight(booking.pickupDate) + 1
    /\ booking.showConfirmation

\* C7: a set dropoff date implies a set pickup date.
C7_DropoffNeedsPickup ==
    booking.dropoffDate # EmptyString => booking.pickupDate # EmptyString

\* C8: a well-formed pickup or dropoff date is not earlier than today.
C8_DatesNotInPast ==
    /\ isCompleteDate(booking.pickupDate)
           => LocalMidnight(booking.pickupDate) >= today
    /\ isCompleteDate(booking.dropoffDate)
           => LocalMidnight(booking.dropoffDate) >= today

\* C9: handlePickupChange(d) with d well-formed and earlier than today
\* changes nothing in the store; with d equal to today it makes d the
\* pickup date.
C9_PastPickupRejected ==
    [][\A value \in DateInputs :
         (isCompleteDate(value) /\ handlePickupChange(value)) =>
             /\ LocalMidnight(value) < today => booking' = booking
             /\ LocalMidnight(value) = today
                    => booking'.pickupDate = value]_vars

\* today's date is the pickup date, and the input offers an earlier date
C9_Witness ==
    /\ FormShown
    /\ ~isPickupDisabled
    /\ isCompleteDate(booking.pickupDate)
    /\ LocalMidnight(booking.pickupDate) = today
    /\ booking.dropoffDate = EmptyString
    /\ \E value \in WellFormedDates : pickupRejected(value)

\* C10: an accepted handlePickupChange(p) empties dropoff exactly when the
\* dropoff date is set and is equal to or earlier than p, and leaves it as
\* it was otherwise (p and dropoff: well-formed dates or empty, the values
\* for which earlier and later are defined).
C10_PickupClearsInvalidDropoff ==
    [][\A value \in DateInputs :
         (/\ value = EmptyString \/ isCompleteDate(value)
          /\ booking.dropoffDate = EmptyString
                \/ isCompleteDate(booking.dropoffDate)
          /\ ~pickupRejected(value)
          /\ handlePickupChange(value))
         => booking'.dropoffDate =
                IF /\ booking.dropoffDate # EmptyString
                   /\ value # EmptyString
                   /\ LocalMidnight(booking.dropoffDate)
                          <= LocalMidnight(value)
                THEN EmptyString
                ELSE booking.dropoffDate]_vars

C10_Witness ==
    /\ isCompleteDate(booking.pickupDate)
    /\ booking.dropoffDate = EmptyString
    /\ booking.showConfirmation

\* C11: handleDropoffChange(d) with d well-formed and either earlier than
\* today or not strictly later than a well-formed pickup date changes
\* nothing in the store: dropoff and every other field keep their values.
C11_InvalidDropoffRejected ==
    [][\A value \in DateInputs :
         (/\ isCompleteDate(value)
          /\ \/ LocalMidnight(value) < today
             \/ /\ isCompleteDate(booking.pickupDate)
                /\ LocalMidnight(value)
                       <= LocalMidnight(booking.pickupDate)
          /\ handleDropoffChange(value))
         => booking' = booking]_vars

\* both dates are set, and the input offers a date in the past and a date
\* that is not in the past and not after the pickup date
C11_Witness ==
    /\ FormShown
    /\ ~isDropoffDisabled
    /\ isCompleteDate(booking.pickupDate)
    /\ isCompleteDate(booking.dropoffDate)
    /\ \E value \in WellFormedDates :
           LocalMidnight(value) < today /\ dropoffRejected(booking, value)
    /\ \E value \in WellFormedDates :
           LocalMidnight(value) >= today /\ dropoffRejected(booking, value)

\* C12: with a vehicle selected, handlePickupChange(p) for a well-formed
\* p not earlier than today makes p the pickup date, and a following
\* handleDropoffChange(d) for a well-formed d later than p leaves
\* pickup = p and dropoff = d with a day count greater than 0.
C12_ValidPairAccepted ==
    [][/\ \A p \in WellFormedDates :
              (LocalMidnight(p) >= today /\ handlePickupChange(p))
              => /\ booking'.pickupDate = p
                 /\ booking'.selectedVehicle # NoVehicle
       /\ \A d \in WellFormedDates :
              (/\ isCompleteDate(booking.pickupDate)
               /\ today <= LocalMidnight(booking.pickupDate)
               /\ LocalMidnight(booking.pickupDate) < LocalMidnight(d)
               /\ handleDropoffChange(d))
              => /\ booking'.pickupDate = booking.pickupDate
                 /\ booking'.dropoffDate = d
                 /\ selectRentalDays(booking') > 0]_vars

C12_Witness ==
    /\ ~booking.showConfirmation
    /\ isCompleteDate(booking.pickupDate)
    /\ isCompleteDate(booking.dropoffDate)
    /\ today <= LocalMidnight(booking.pickupDate)
    /\ selectRentalDays(booking) > 0

\* C13: handleBookNow sets the confirmation flag, and nothing else, when the
\* validity gate is true at that moment; when the gate is false it leaves
\* the whole store as it was.
C13_ConfirmationGated ==
    [][handleBookNow =>
         IF selectIsBookingValid(booking)
         THEN booking' = [booking EXCEPT !.showConfirmation = TRUE]
         ELSE booking' = booking]_vars

C13_Witness ==
    /\ FormShown
    /\ booking.showConfirmation
    /\ selectIsBookingValid(booking)
    /\ booking.selectedAddons # <<>>

\* C14: handleClose (hideConfirmation, then resetBooking) leaves no vehicle
\* selected, both dates empty, no add-on selected and the confirmation flag
\* false, and keeps state.vehicles; hideConfirmation alone changes only the
\* confirmation flag.
C14_ResetKeepsCatalog ==
    [][handleClose =>
         /\ booking'.selectedVehicle = NoVehicle
         /\ booking'.pickupDate = EmptyString
         /\ booking'.dropoffDate = EmptyString
         /\ booking'.selectedAddons = <<>>
         /\ booking'.showConfirmation = FALSE
         /\ booking'.vehicles = booking.vehicles
         /\ booking'.vehicles # <<>>
         /\ \A field \in DOMAIN booking \ {"showConfirmation"} :
                hideConfirmation(booking)[field] = booking[field]
         /\ hideConfirmation(booking).showConfirmation = FALSE]_vars

C14_Witness ==
    /\ booking.selectedVehicle = NoVehicle
    /\ booking.vehicles = AllVehicles
    /\ booking.addons # <<>>
    /\ booking.pickupDate = EmptyString
    /\ ~booking.showConfirmation

\* C15: selectIsBookingValid is true exactly when a vehicle is selected,
\* both dates are set and the day count is greater than 0, and it does not
\* depend on the add-on fields: it has the value it has for the same state
\* with nothing selected and no add-on available, so two states that
\* differ only in selectedAddons and addons have the same value.
C15_GateIgnoresAddons ==
    /\ selectIsBookingValid(booking)
           <=> /\ booking.selectedVehicle # NoVehicle
               /\ booking.pickupDate # EmptyString
               /\ booking.dropoffDate # EmptyString
               /\ selectRentalDays(booking) > 0
    /\ selectIsBookingValid([booking EXCEPT !.selectedAddons = <<>>,
                                            !.addons = <<>>])
           = selectIsBookingValid(booking)

C15_Witness ==
    /\ selectIsBookingValid(booking)
    /\ Len(booking.selectedAddons) = 2
    /\ booking.addons = <<>>
    /\ ~booking.showConfirmation

\* the per-day cost of a set of add-on ids
RECURSIVE PerDayCost(_)
PerDayCost(ids) ==
    IF ids = {} THEN 0
    ELSE LET a == CHOOSE x \in ids : TRUE
         IN AddonCostPerDay(a) + PerDayCost(ids \ {a})

\* C16: every summary has baseCost = costPerDay * days, addonsCost = the sum
\* of costPerDay * days over the selected add-ons that are available,
\* subtotal = baseCost + addonsCost, gst = 18% of subtotal and total =
\* subtotal + gst; Sedan for 3 days without add-ons gives
\* 7500/0/7500/1350/8850, Luxury for 2 days with GPS and Insurance gives
\* 10000/1400/11400/2052/13452.
C16_PricingFormula ==
    LET summary == selectBookingSummary(booking)
        resolved == Range(booking.addons) \cap Range(booking.selectedAddons)
    IN summary # NoSummary =>
        /\ summary.days = selectRentalDays(booking)
        /\ summary.baseCost
               = VehicleCostPerDay(booking.selectedVehicle) * summary.days
        /\ summary.addonsCost = PerDayCost(resolved) * summary.days
        /\ summary.subtotal = summary.baseCost + summary.addonsCost
        /\ summary.gst * 100 = summary.subtotal * 18
        /\ summary.total = summary.subtotal + summary.gst
        /\ (booking.selectedVehicle = 1 /\ summary.days = 3
                /\ resolved = {})
           => /\ summary.baseCost = 7500
              /\ summary.addonsCost = 0
              /\ summary.subtotal = 7500
              /\ summary.gst = 1350
              /\ summary.total = 8850
        /\ (booking.selectedVehicle = 3 /\ summary.days = 2
                /\ resolved = {1, 5})
           => /\ summary.baseCost = 10000
              /\ summary.addonsCost = 1400
              /\ summary.subtotal = 11400
              /\ summary.gst = 2052
              /\ summary.total = 13452

C16_Witness ==
    /\ booking.selectedVehicle = 3
    /\ booking.selectedAddons = <<1, 5>>
    /\ booking.addons = getAddonsByVehicleId(3)
    /\ selectBookingSummary(booking) # NoSummary
    /\ selectBookingSummary(booking).days = 2
    /\ selectBookingSummary(booking).total = 13452

\* C17: selectBookingSummary is null whenever no vehicle is selected, a date
\* is unset or the day count is 0, it is non-null exactly when
\* selectIsBookingValid is true, and a non-null summary is never
\* zero-valued.
C17_NoSummaryUnlessValid ==
    LET summary == selectBookingSummary(booking)
    IN /\ (\/ booking.selectedVehicle = NoVehicle
            \/ booking.pickupDate = EmptyString
            \/ booking.dropoffDate = EmptyString
            \/ selectRentalDays(booking) = 0) => summary = NoSummary
       /\ summary # NoSummary <=> selectIsBookingValid(booking)
       /\ summary # NoSummary => summary.days > 0 /\ summary.total > 0

C17_Witness ==
    /\ booking.selectedVehicle # NoVehicle
    /\ isCompleteDate(booking.pickupDate)
    /\ booking.dropoffDate = booking.pickupDate
    /\ booking.selectedAddons # <<>>
    /\ selectRentalDays(booking) = 0
    /\ selectBookingSummary(booking) = NoSummary

\* C18: the day count is 0 when a date is missing or is not a well-formed
\* date, and is otherwise the absolute difference in calendar days; with
\* both dates set it is dropoff - pickup >= 1.
C18_DayCount ==
    LET days == selectRentalDays(booking)
    IN /\ (~isCompleteDate(booking.pickupDate)
            \/ ~isCompleteDate(booking.dropoffDate)) => days = 0
       /\ (isCompleteDate(booking.pickupDate)
            /\ isCompleteDate(booking.dropoffDate))
           => /\ days = LocalMidnight(booking.dropoffDate)
                            - LocalMidnight(booking.pickupDate)
              /\ days >= 1

\* C19: whatever selectedAddons holds, a valid booking has a summary; its
\* add-on list holds only available add-ons, and a selected id that is not
\* available contributes nothing: the summary is the one computed without
\* that id.
C19_UnresolvedAddonIgnored ==
    LET summary == selectBookingSummary(booking)
        unresolved == Range(booking.selectedAddons) \ Range(booking.addons)
    IN selectIsBookingValid(booking) =>
        /\ summary # NoSummary
        /\ Range(summary.selectedAddons)
               = Range(booking.selectedAddons) \cap Range(booking.addons)
        /\ \A id \in unresolved :
               selectBookingSummary(
                   [booking EXCEPT !.selectedAddons =
                                       removeAt(@, indexOf(@, id))])
                   = summary
        /\ Range(booking.selectedAddons) \subseteq unresolved
               => summary.addonsCost = 0

C19_Witness ==
    /\ selectBookingSummary(booking) # NoSummary
    /\ \E id \in Range(booking.selectedAddons) :
           id \notin Range(booking.addons)
    /\ \E id \in Range(booking.selectedAddons) :
           id \in Range(booking.addons)
    /\ selectBookingSummary(booking).addonsCost > 0

\* C20: toggleAddon(id) applied twice in a row gives back the selected
\* add-ons it started from, as a set, for every id and every selection.
C20_ToggleTwice ==
    \A addonId \in 1..MaxAddonId :
        Range(toggleAddon(toggleAddon(booking, addonId),
                          addonId).selectedAddons)
            = Range(booking.selectedAddons)

C20_Witness ==
    /\ Len(booking.selectedAddons) = 2
    /\ toggleAddon(toggleAddon(booking, booking.selectedAddons[1]),
                   booking.selectedAddons[1]).selectedAddons
           = <<booking.selectedAddons[2], booking.selectedAddons[1]>>

\* C21: toggleAddon(id) with an id that is not among the available add-ons
\* changes nothing: selectedAddons and every other field of the store keep
\* their values.
C21_IneligibleToggleNoOp ==
    [][\A addonId \in 1..MaxAddonId :
           (addonId \notin Range(booking.addons)
               /\ dispatchToggleAddon(addonId))
           => booking' = booking]_vars

\* C22: the endpoint returns the base add-ons 1, 2, 5, 6 for every id; for
\* the vehicles of the catalog it returns exactly the base for vehicle 1,
\* base plus WiFi (3) for vehicles 2 and 4, and base plus WiFi plus the
\* premium add-ons 4, 7, 8, 9, 10 for vehicle 3 and for no other vehicle;
\* so the base is within every result and the result of 2 and 4 is within
\* the result of 3.
C22_EligibilityTable ==
    [][\A vehicleId \in RequestIds :
           RequestAddons(vehicleId) =>
               LET result == Range(booking'.addons)
                   Premium == {4, 7, 8, 9, 10}
               IN /\ {1, 2, 5, 6} \subseteq result
                  /\ Len(booking'.addons) = Cardinality(result)
                  /\ vehicleId = LongOf(1) => result = {1, 2, 5, 6}
                  /\ vehicleId \in {LongOf(2), LongOf(4)}
                         => /\ result = {1, 2, 5, 6} \cup {3}
                            /\ result
                                 \subseteq Range(getAddons(LongOf(3)))
                  /\ vehicleId = LongOf(3)
                         => result = {1, 2, 5, 6} \cup {3} \cup Premium
                  /\ \A v \in VehicleIds \ {3} :
                         vehicleId = LongOf(v)
                             => result \cap Premium = {}]_vars

C22_Witness ==
    /\ booking.addons = <<1, 2, 5, 6, 3, 4, 7, 8, 9, 10>>
    /\ booking.selectedVehicle = 3

\* C23: the endpoint never fails, and for an absent vehicle id and for
\* every vehicle id that is not an id of the catalog it returns exactly the
\* base add-ons.
C23_UnknownIdGetsBase ==
    [][\A vehicleId \in RequestIds :
           (vehicleId \notin { LongOf(v) : v \in VehicleIds }
               /\ RequestAddons(vehicleId))
           => booking'.addons = BaseAddons]_vars

\* C24: a failed fetch leaves the selection as it was and the form usable:
\* fetchVehicles.rejected changes only loading and error, fetchAddons.rejected
\* changes only addons, to the empty list, and after either of them the
\* selection handlers are still available: the form stays as the add-on
\* failure found it, and with a vehicle catalog in the store the form is
\* rendered after a failed vehicle fetch.
C24_FailedFetchKeepsSelection ==
    [][/\ FetchVehiclesRejected =>
            /\ \A field \in DOMAIN booking \ {"loading", "error"} :
                   booking'[field] = booking[field]
            /\ booking.vehicles # <<>> => FormShown'
       /\ \A vehicleId \in VehicleIds :
              FetchAddonsRejected(vehicleId) =>
                  /\ \A field \in DOMAIN booking \ {"addons"} :
                         booking'[field] = booking[field]
                  /\ booking'.addons = <<>>
                  /\ FormShown' = FormShown]_vars

\* C25: the store tells "add-ons not yet known" from "add-ons known to be
\* empty": when the only outstanding add-on fetch, the one for the selected
\* vehicle, fails, the store after the failure differs from the store
\* while the fetch was outstanding.
C25_PendingDiffersFromFailed ==
    [][\A vehicleId \in VehicleIds :
           (/\ vehicleId = booking.selectedVehicle
            /\ InFlight = 1
            /\ FetchAddonsRejected(vehicleId))
           => booking' # booking]_vars

\* C26: when no add-on fetch is in flight any more and a vehicle is
\* selected, state.addons is the eligibility result of the selected vehicle
\* (its fetch succeeded) or empty (its fetch failed), in whatever order the
\* overlapping fetches resolved.
C26_SettledAddonsMatchVehicle ==
    (InFlight = 0 /\ booking.selectedVehicle # NoVehicle) =>
        \/ booking.addons = getAddonsByVehicleId(booking.selectedVehicle)
        \/ booking.addons = <<>>

\* C27: a fulfilled fetchAddons leaves state.addons equal to the fetched
\* list, so nothing of the previous list survives unless the new list holds
\* it, and changes no other field: selectedVehicle, the dates,
\* selectedAddons and showConfirmation keep their values.
C27_FulfilledReplacesAddons ==
    [][\A vehicleId \in VehicleIds :
           FetchAddonsFulfilled(vehicleId) =>
               /\ booking'.addons = getAddonsByVehicleId(vehicleId)
               /\ Range(booking.addons) \cap Range(booking'.addons)
                      \subseteq Range(getAddonsByVehicleId(vehicleId))
               /\ \A field \in DOMAIN booking \ {"addons"} :
                      booking'[field] = booking[field]]_vars

\* the list of vehicle 1 has replaced the list of vehicle 2, WiFi is gone,
\* and the selection made before is still there
C27_Witness ==
    /\ InFlight = 0
    /\ booking.selectedVehicle = 2
    /\ booking.addons = getAddonsByVehicleId(1)
    /\ booking.selectedAddons = <<1>>
    /\ booking.pickupDate # EmptyString

\* C28: whenever showConfirmation is true the booking is valid and has a
\* summary: nothing that happens while the confirmation is showing makes
\* the booking invalid and leaves the flag set.
C28_ConfirmationImpliesValid ==
    booking.showConfirmation =>
        /\ selectIsBookingValid(booking)
        /\ selectBookingSummary(booking) # NoSummary

\* C29: a pickup or dropoff date that is set implies a selected vehicle,
\* and add-ons are only toggled while a vehicle is selected: with no
\* vehicle selected, pickupDate, dropoffDate and selectedAddons are empty.
C29_NothingWithoutVehicle ==
    /\ (booking.pickupDate # EmptyString
         \/ booking.dropoffDate # EmptyString
         \/ booking.selectedAddons # <<>>)
           => booking.selectedVehicle # NoVehicle
    /\ booking.selectedVehicle = NoVehicle =>
           /\ booking.pickupDate = EmptyString
           /\ booking.dropoffDate = EmptyString
           /\ booking.selectedAddons = <<>>

\* the form after a booking was closed: the add-ons of the vehicle that was
\* booked are still listed, the date inputs are disabled
C29_Witness ==
    /\ FormShown
    /\ booking.selectedVehicle = NoVehicle
    /\ booking.addons # <<>>
    /\ isPickupDisabled
    /\ booking.pickupDate = EmptyString
    /\ booking.selectedAddons = <<>>

\* C30: selectedAddons never holds the same add-on id twice, whatever
\* toggleAddon and resetBooking dispatches came before.
C30_NoDuplicateSelection ==
    /\ Cardinality(Range(booking.selectedAddons))
           = Len(booking.selectedAddons)
    /\ \A i, j \in 1..Len(booking.selectedAddons) :
           booking.selectedAddons[i] = booking.selectedAddons[j] => i = j

\* two ids selected, in the order of their toggles
C30_Witness ==
    /\ Len(booking.selectedAddons) = MaxSelected
    /\ booking.selectedAddons[1] > booking.selectedAddons[2]
    /\ booking.selectedAddons[2] \in Range(booking.addons)

\* C31: the summary is a function of the vehicle, the two dates and the
\* selected add-on ids alone: a state has the summary of the state with the
\* same four values in which the add-on fetch of the selected vehicle has
\* resolved in order and nothing is loading, failed or confirmed.
C31_SummaryDeterminedByInputs ==
    LET settled ==
            [booking EXCEPT
                !.addons = getAddonsByVehicleId(booking.selectedVehicle),
                !.loading = FALSE,
                !.error = NoError,
                !.showConfirmation = FALSE]
    IN selectBookingSummary(booking) = selectBookingSummary(settled)

\* C32: every summary has 0 <= baseCost <= subtotal <= total, add-on cost
\* and tax not below 0, and selecting one more available add-on does not
\* lower the total.
C32_CostsOrdered ==
    LET summary == selectBookingSummary(booking)
    IN summary # NoSummary =>
        /\ 0 <= summary.baseCost
        /\ summary.baseCost <= summary.subtotal
        /\ summary.subtotal <= summary.total
        /\ summary.addonsCost >= 0
        /\ summary.gst >= 0
        /\ \A addonId \in Range(booking.addons)
                              \ Range(booking.selectedAddons) :
               selectBookingSummary(toggleAddon(booking, addonId)).total
                   >= summary.total

\* a priced booking with one add-on selected and another one still to add
C32_Witness ==
    LET summary == selectBookingSummary(booking)
    IN /\ summary # NoSummary
       /\ Len(summary.selectedAddons) = 1
       /\ summary.baseCost < summary.subtotal
       /\ \E addonId \in Range(booking.addons)
                             \ Range(booking.selectedAddons) :
              selectBookingSummary(toggleAddon(booking, addonId)).total
                  > summary.total

\* C33: with fetchVehicles requests overlapping, loading is true only while
\* at least one fetchVehicles is in flight and is false once all of them
\* have resolved; only a rejected fetchVehicles sets error, and the start
\* of a fetch (of vehicles or of add-ons) clears it.
C33_LoadingTracksFetches ==
    [][/\ booking.loading => vehicleFetches >= 1
       /\ booking'.loading => vehicleFetches' >= 1
       /\ vehicleFetches' = 0 => ~booking'.loading
       /\ (booking'.error # NoError /\ booking'.error # booking.error)
              => FetchVehiclesRejected
       /\ (vehicleFetches' > vehicleFetches \/ InFlight' > InFlight)
              => booking'.error = NoError]_vars

\* two fetchVehicles overlapped: one was rejected, the other is in flight
C33_Witness ==
    /\ vehicleFetches = 1
    /\ ~booking.loading
    /\ booking.error # NoError

\* C34: for an empty or well-formed new pickup date and an empty or
\* well-formed dropoff date, the string comparison of the setPickupDate
\* reducer and the calendar comparison of handlePickupChange clear the
\* dropoff date in the same cases: the store after handlePickupChange is
\* the store after setPickupDate alone.
C34_ReducerAgreesWithComponent ==
    [][\A value \in DateInputs :
           (/\ handlePickupChange(value)
            /\ ~pickupRejected(value)
            /\ value = EmptyString \/ isCompleteDate(value)
            /\ booking.dropoffDate = EmptyString
                   \/ isCompleteDate(booking.dropoffDate))
           => /\ booking' = setPickupDate(booking, value)
              /\ (value # EmptyString
                    /\ booking.dropoffDate # EmptyString)
                     => (StringLeq(booking.dropoffDate, value)
                           <=> ~isValidDropoffDate(booking.dropoffDate,
                                                   value))]_vars

\* the pickup date was moved onto or past the dropoff date of a confirmed
\* booking, across the end of the year
C34_Witness ==
    /\ booking.showConfirmation
    /\ booking.pickupDate = DateOf(3)
    /\ booking.dropoffDate = EmptyString
    /\ today = Today0

====
